---- MODULE Spec2Model ----
(***************************************************************************)
(* The M/G/1 queue of qmodels/mg1.py on the simulus discrete-event engine. *)
(*                                                                         *)
(* The program is the script of mg1.py run as __main__: a demonstration    *)
(* run of one mg1 instance on the simulator bound to the module-level name *)
(* `sim`, followed by a sweep that calls simrun() over and over, each call *)
(* with a simulator, collector and mg1 instance of its own.                *)
(*                                                                         *)
(* One simulator is live at a time.  The engine variables (event list,     *)
(* ready queue, resource, ...) describe the live mg1 instance and its      *)
(* simulator; `now` keeps the clock of both simulators the program can     *)
(* name: the module-level one and the one local to the current simrun().   *)
(* Every statement of gen_arrivals and customer is one action, executed by *)
(* the process the engine is running (`running`); the engine switches      *)
(* process only when the running one sleeps, blocks in acquire() or ends.  *)
(* Events with the same timestamp are taken in any order.                  *)
(*                                                                         *)
(* Time is measured in whole simulated time units.                         *)
(***************************************************************************)
EXTENDS Integers, Sequences, FiniteSets, TLC

\* ------------------------------------------------------------------ bounds
\* Customers the arrival generator spawns in one run: after that many
\* arrivals the next inter-arrival gap is taken to reach the stop time.
MaxCust == 3

\* Values of the program's root seed considered: 0..MaxRoot.
MaxRoot == 3

\* ------------------------------------------------------ program constants
DemoUntil == 10
TrialUntil == 1000
NumB == 10
NumTrials == 25

\* A server with room for two.
CapacityTwo == 1 + 1

\* sim.resource(collect=dc): a resource of the default capacity
Capacity == 1

\* Sample points of the two distributions (durations a draw can produce).
IatGrid == <<0, 2>>
SvcGrid == <<0, 3>>

\* ------------------------------------------------------------------ names
GlobalSim == "mg1"      \* the simulator bound to the module-level name sim
LocalSim == "anon"      \* the simulator local to the current simrun()
SimIds == {GlobalSim, LocalSim}

Gen == 0                \* the gen_arrivals process
Custs == 1..MaxCust     \* the customer processes, in spawn order
Procs == {Gen} \cup Custs
None == -1              \* no process / no pending event

RECURSIVE Pow(_, _)
Pow(b, e) == IF e = 0 THEN 1 ELSE b * Pow(b, e - 1)

VARIABLES
  pcMain,              \* position of the driver (__main__)
  bIdx,                \* index of the sweep value b being run
  zlen,                \* len(z): trial means collected for the current b
  rows,                \* rows printed so far
  rootSeed,            \* the seed of the global random source
  nsims,               \* simulators created so far
  qsim,                \* self.sim of the live mg1 instance
  inter_arrival_time,  \* self.inter_arrival_time: [seed, k] (k draws taken)
  service_time,        \* self.service_time: [seed, k]
  now,                 \* now[s]: clock of simulator s
  until,               \* stop time of the run in progress
  evt,                 \* evt[p]: time of p's pending event, or None
  pc,                  \* pc[p]: position of process p
  running,             \* the process being run, or None
  readyq,              \* activated processes waiting to be run
  nspawned,            \* customer processes created
  arrivals,            \* server._arrivals: process -> arrival time
  services,            \* server._services: processes in service
  semVal,              \* value of the server's semaphore
  blocked,             \* processes blocked on the semaphore, FIFO
  dc,                  \* TRUE iff a DataCollector is attached
  system_times,        \* dc.system_times
  msgs,                \* messages handed to log.info by the live instance
  acqOrder,            \* history: customers in order of acquire() calls
  svcOrder,            \* history: customers in order of service starts
  depOrder,            \* history: customers in order of release() calls
  arrTime,             \* history: arrTime[c] time c called acquire()
  relTime,             \* history: relTime[c] time c called release()
  grantTime,           \* history: grantTime[c] time acquire() returned to c
  svcDur               \* history: svcDur[c] service duration c drew

driverVars == <<pcMain, bIdx, zlen, rows, rootSeed>>
mg1Vars == <<qsim, inter_arrival_time, service_time, nsims>>
engVars == <<now, until, evt, pc, running, readyq, nspawned>>
resVars == <<arrivals, services, semVal, blocked, dc, system_times>>
histVars == <<msgs, acqOrder, svcOrder, depOrder, arrTime, relTime, grantTime,
              svcDur>>
vars == <<driverVars, mg1Vars, engVars, resVars, histVars>>

\* ------------------------------------------------------- variate streams
\* A stream is fixed by its seed: draw k is digit k of the seed, read as an
\* index into the grid of the distribution.
SeedSpace(grid) == Pow(Len(grid), MaxCust)

Variate(grid, stream) ==
  grid[((stream.seed \div Pow(Len(grid), stream.k)) % Len(grid)) + 1]

\* The two values sim.rng().randrange(2**32) returns in mg1.__init__ on the
\* n-th simulator of a program seeded with root: a fixed function of both.
SeedPair(root, n) ==
  LET N == SeedSpace(IatGrid) * SeedSpace(SvcGrid)
      x == (root * 21 + n * 5 + N - 1) % N
  IN  <<x % SeedSpace(IatGrid), x \div SeedSpace(IatGrid)>>

\* expon(mean_iat, seed): the stream of inter-arrival times
expon(seed) == [seed |-> seed, k |-> 0]

\* truncnorm(a, b, seed): the stream of service times
truncnorm(seed) == [seed |-> seed, k |-> 0]

\* next(stream): the value drawn
NextVal(grid, stream) == Variate(grid, stream)

\* next(stream): the stream after the draw
Advance(stream) == [stream EXCEPT !.k = @ + 1]

\* ------------------------------------------------------------- the engine
\* Counting the customers in service only.
num_in_service == Cardinality(services)

\* resource.num_in_system()
num_in_system == Cardinality(DOMAIN arrivals)

\* The number of decimal digits of a non-negative whole t.
RECURSIVE Digits(_)
Digits(t) == IF t < 10 THEN 1 ELSE 1 + Digits(t \div 10)

\* '%g' % t for a non-negative whole t: the value the text denotes, t
\* rounded to six significant digits, a tie going to the even digit.
FmtG(t) ==
  IF Digits(t) <= 6 THEN t
  ELSE LET s == Pow(10, Digits(t) - 6)
           q == t \div s
           r == t % s
           up == r * 2 > s \/ (r * 2 = s /\ q % 2 = 1)
       IN  (IF up THEN q + 1 ELSE q) * s

InRun == pcMain \in {"demo_run", "trial_run"}

PendingTimes == {evt[p] : p \in {q \in Procs : evt[q] # None}}

MinTime == CHOOSE t \in PendingTimes : \A u \in PendingTimes : t <= u

\* A run without a stop time.
NoStop(t) == TRUE

\* run(offset): only events strictly before the stop time are processed.
BeforeStop(t) == t < until

\* Where a process resumes when its pending event is processed.
ResumeAt(p) ==
  IF p = Gen
  THEN (IF pc[p] = "spawned" THEN "l26" ELSE "l27")
  ELSE (IF pc[p] = "spawned" THEN "l30" ELSE "l34")

\* State of a freshly built simulator s with one mg1 instance on it.
NewModel(s, collect) ==
  /\ qsim' = s
  /\ nsims' = nsims + 1
  /\ inter_arrival_time' = expon(SeedPair(rootSeed, nsims)[1])
  /\ service_time' = truncnorm(SeedPair(rootSeed, nsims)[2])
  /\ now' = [now EXCEPT ![s] = 0]
  /\ until' = 0
  /\ evt' = [p \in Procs |-> IF p = Gen THEN 0 ELSE None]
  /\ pc' = [p \in Procs |-> IF p = Gen THEN "spawned" ELSE "unborn"]
  /\ running' = None
  /\ readyq' = <<>>
  /\ nspawned' = 0
  /\ arrivals' = <<>>
  /\ services' = {}
  /\ semVal' = Capacity
  /\ blocked' = <<>>
  /\ dc' = collect
  /\ system_times' = <<>>
  /\ msgs' = <<>>
  /\ acqOrder' = <<>>
  /\ svcOrder' = <<>>
  /\ depOrder' = <<>>
  /\ arrTime' = [c \in Custs |-> None]
  /\ relTime' = [c \in Custs |-> None]
  /\ grantTime' = [c \in Custs |-> None]
  /\ svcDur' = [c \in Custs |-> None]

Init ==
  /\ pcMain = "start"
  /\ bIdx = 0
  /\ zlen = 0
  /\ rows = 0
  /\ rootSeed \in 0..MaxRoot
  /\ nsims = 0
  /\ qsim = GlobalSim
  /\ inter_arrival_time = expon(0)
  /\ service_time = truncnorm(0)
  /\ now = [s \in SimIds |-> 0]
  /\ until = 0
  /\ evt = [p \in Procs |-> None]
  /\ pc = [p \in Procs |-> "unborn"]
  /\ running = None
  /\ readyq = <<>>
  /\ nspawned = 0
  /\ arrivals = <<>>
  /\ services = {}
  /\ semVal = Capacity
  /\ blocked = <<>>
  /\ dc = FALSE
  /\ system_times = <<>>
  /\ msgs = <<>>
  /\ acqOrder = <<>>
  /\ svcOrder = <<>>
  /\ depOrder = <<>>
  /\ arrTime = [c \in Custs |-> None]
  /\ relTime = [c \in Custs |-> None]
  /\ grantTime = [c \in Custs |-> None]
  /\ svcDur = [c \in Custs |-> None]

\* --------------------------------------------------------------- sim.run
\* The engine takes the earliest pending event, if it lies before the stop
\* time, advances the clock to it and resumes its process.
process_one_event(p) ==
  /\ InRun
  /\ running = None
  /\ readyq = <<>>
  /\ evt[p] # None
  /\ evt[p] = MinTime
  /\ BeforeStop(evt[p])
  /\ now' = [now EXCEPT ![qsim] = evt[p]]
  /\ evt' = [evt EXCEPT ![p] = None]
  /\ pc' = [pc EXCEPT ![p] = ResumeAt(p)]
  /\ running' = p
  /\ UNCHANGED <<driverVars, mg1Vars, until, readyq, nspawned, resVars, histVars>>

\* A process activated by a release() is run before the next event is taken.
\* It returns from acquire(): the resource records the start of its service.
run_ready ==
  /\ InRun
  /\ running = None
  /\ readyq # <<>>
  /\ LET p == Head(readyq) IN
       /\ running' = p
       /\ readyq' = Tail(readyq)
       /\ services' = services \cup {p}
       /\ svcOrder' = Append(svcOrder, p)
       /\ grantTime' = [grantTime EXCEPT ![p] = now[qsim]]
       /\ pc' = [pc EXCEPT ![p] = "l33"]
  /\ UNCHANGED <<driverVars, mg1Vars, now, until, evt, nspawned, arrivals,
                 semVal, blocked, dc, system_times, msgs, acqOrder, depOrder,
                 arrTime, relTime, svcDur>>

\* No event is left before the stop time: run() sets the clock to the stop
\* time and returns to the driver.
run_return ==
  /\ InRun
  /\ running = None
  /\ readyq = <<>>
  /\ \A p \in Procs : evt[p] # None => ~BeforeStop(evt[p])
  /\ now' = [now EXCEPT ![qsim] = until]
  /\ pcMain' = IF pcMain = "demo_run" THEN "demo_ret" ELSE "trial_ret"
  /\ UNCHANGED <<bIdx, zlen, rows, rootSeed, mg1Vars, until, evt, pc, running, readyq,
                 nspawned, resVars, histVars>>

\* ---------------------------------------------------------- gen_arrivals
\* A generator that builds its stream anew for every draw.
GenGapRestart ==
  IF nspawned < MaxCust
  THEN NextVal(IatGrid, expon(inter_arrival_time.seed))
  ELSE until - now[qsim]

\* The gap the generator sleeps for: the next draw of inter_arrival_time;
\* after MaxCust arrivals, a gap that reaches the stop time.
GenGap ==
  IF nspawned < MaxCust
  THEN NextVal(IatGrid, inter_arrival_time)
  ELSE until - now[qsim]

\* A sleep that takes the duration for the time to wake up at.
SleepUntil(d) == d

\* sim.sleep(d): the time of the wake-up event, d after the current time.
SleepWake(d) == now[qsim] + d

\* self.sim.sleep(next(self.inter_arrival_time))
gen_sleep ==
  /\ running = Gen
  /\ pc[Gen] = "l26"
  /\ evt' = [evt EXCEPT ![Gen] = SleepWake(GenGap)]
  /\ inter_arrival_time' = Advance(inter_arrival_time)
  /\ pc' = [pc EXCEPT ![Gen] = "sleeping"]
  /\ running' = None
  /\ UNCHANGED <<driverVars, qsim, nsims, service_time, now, until, readyq, nspawned,
                 resVars, histVars>>

\* Two customers per iteration.
SpawnTwo == {nspawned + 1, nspawned + 2}

\* The processes one iteration of the generator creates.
SpawnSet == {nspawned + 1}

\* self.sim.process(self.customer): the new process starts at the current
\* time, by an event of its own; the generator goes on.
gen_spawn ==
  /\ running = Gen
  /\ pc[Gen] = "l27"
  /\ nspawned < MaxCust
  /\ evt' = [p \in Procs |-> IF p \in SpawnSet THEN now[qsim] ELSE evt[p]]
  /\ pc' = [p \in Procs |->
              IF p \in SpawnSet THEN "spawned"
              ELSE IF p = Gen THEN "l26" ELSE pc[p]]
  /\ nspawned' = nspawned + Cardinality(SpawnSet)
  /\ UNCHANGED <<driverVars, mg1Vars, now, until, running, readyq, resVars,
                 histVars>>

\* ---------------------------------------------------------------- customer
\* The simulator the name sim denotes in customer: the module-level one.
LogSim == GlobalSim

\* The time a log message carries: sim.now, sim being the module-level name.
LogTime == now[LogSim]

\* The arrival message with the number in service for the occupancy.
ArrivalInService == <<num_in_service, num_in_service + 1>>

\* The occupancy pair of the arrival message.
ArrivalCounts == <<num_in_system, num_in_system + 1>>

\* The departure message with the counts of the arrival message.
DepartureAsArrival == <<num_in_system, num_in_system + 1>>

\* The occupancy pair of the departure message.
DepartureCounts == <<num_in_system, num_in_system - 1>>

\* A message handed to log.info; `emitted` tells whether the level lets it
\* through (DEBUG in the demonstration run, WARNING in the sweep); `who` and
\* `clock` are history: the customer and the clock of its own simulator;
\* `src` is history too: the simulator whose clock was read for `t`.
Message(c, site, counts) ==
  [t |-> FmtG(LogTime), before |-> counts[1], after |-> counts[2],
   site |-> site, emitted |-> (pcMain = "demo_run"), who |-> c,
   clock |-> now[qsim], src |-> LogSim]

\* log.info('%g: customer arrives (num_in_system=%d->%d)' % ...)
customer_log_arrival(c) ==
  /\ running = c
  /\ pc[c] = "l30"
  /\ msgs' = Append(msgs, Message(c, "arrival", ArrivalCounts))
  /\ pc' = [pc EXCEPT ![c] = "l32"]
  /\ UNCHANGED <<driverVars, mg1Vars, now, until, evt, running, readyq,
                 nspawned, resVars, acqOrder, svcOrder, depOrder, arrTime,
                 relTime, grantTime, svcDur>>

\* An acquire() that suspends every caller.
AlwaysWait(v) == TRUE

\* acquire() suspends the caller iff the semaphore is exhausted.
MustWait(v) == v < 0

\* self.server.acquire(): the resource records the arrival, then the caller
\* takes the semaphore: it goes on at once, or blocks at the tail of the
\* queue and the engine runs something else.
customer_acquire(c) ==
  /\ running = c
  /\ pc[c] = "l32"
  /\ arrivals' = arrivals @@ (c :> now[qsim])
  /\ acqOrder' = Append(acqOrder, c)
  /\ arrTime' = [arrTime EXCEPT ![c] = now[qsim]]
  /\ semVal' = semVal - 1
  /\ IF MustWait(semVal - 1)
     THEN /\ blocked' = Append(blocked, c)
          /\ pc' = [pc EXCEPT ![c] = "blocked"]
          /\ running' = None
          /\ UNCHANGED <<services, svcOrder, grantTime>>
     ELSE /\ services' = services \cup {c}
          /\ svcOrder' = Append(svcOrder, c)
          /\ grantTime' = [grantTime EXCEPT ![c] = now[qsim]]
          /\ pc' = [pc EXCEPT ![c] = "l33"]
          /\ UNCHANGED <<blocked, running>>
  /\ UNCHANGED <<driverVars, mg1Vars, now, until, evt, readyq, nspawned, dc,
                 system_times, msgs, depOrder, relTime, svcDur>>

\* self.sim.sleep(next(self.service_time))
customer_sleep(c) ==
  /\ running = c
  /\ pc[c] = "l33"
  /\ evt' = [evt EXCEPT ![c] = SleepWake(NextVal(SvcGrid, service_time))]
  /\ svcDur' = [svcDur EXCEPT ![c] = NextVal(SvcGrid, service_time)]
  /\ service_time' = Advance(service_time)
  /\ pc' = [pc EXCEPT ![c] = "sleeping"]
  /\ running' = None
  /\ UNCHANGED <<driverVars, qsim, nsims, inter_arrival_time, now, until, readyq,
                 nspawned, resVars, msgs, acqOrder, svcOrder, depOrder, arrTime,
                 relTime, grantTime>>

\* log.info(...) of the departure
customer_log_departure(c) ==
  /\ running = c
  /\ pc[c] = "l34"
  /\ msgs' = Append(msgs, Message(c, "departure", DepartureCounts))
  /\ pc' = [pc EXCEPT ![c] = "l36"]
  /\ UNCHANGED <<driverVars, mg1Vars, now, until, evt, running, readyq,
                 nspawned, resVars, acqOrder, svcOrder, depOrder, arrTime,
                 relTime, grantTime, svcDur>>

\* The release time alone.
ReleaseTime(c) == now[qsim]

\* The sample release() hands to the collector for customer c.
SystemTime(c) == now[qsim] - arrivals[c]

\* The waiter that joined last.
LastWaiter(q) == Len(q)

\* The position in the queue of the waiter release() activates: the head.
NextWaiter(q) == 1

\* A release that activates nobody.
GrantNobody == <<>>

\* The processes release() activates: the next waiter, if any.
Granted == IF blocked # <<>> THEN <<blocked[NextWaiter(blocked)]>> ELSE <<>>

\* The queue without its i-th element.
RemoveAt(q, i) == SubSeq(q, 1, i - 1) \o SubSeq(q, i + 1, Len(q))

\* self.server.release(): the resource records the departure (and the
\* system time, with a collector), gives the semaphore back and activates
\* the head waiter; the customer process ends.
customer_release(c) ==
  /\ running = c
  /\ pc[c] = "l36"
  /\ arrivals' = [d \in DOMAIN arrivals \ {c} |-> arrivals[d]]
  /\ services' = services \ {c}
  /\ system_times' = IF dc THEN Append(system_times, SystemTime(c))
                     ELSE system_times
  /\ depOrder' = Append(depOrder, c)
  /\ relTime' = [relTime EXCEPT ![c] = now[qsim]]
  /\ semVal' = semVal + 1
  /\ readyq' = readyq \o Granted
  /\ blocked' = IF blocked # <<>> THEN RemoveAt(blocked, NextWaiter(blocked))
                 ELSE blocked
  /\ pc' = [pc EXCEPT ![c] = "done"]
  /\ running' = None
  /\ UNCHANGED <<driverVars, mg1Vars, now, until, evt, nspawned, dc, msgs,
                 acqOrder, svcOrder, arrTime, grantTime, svcDur>>

\* ---------------------------------------------------------------- __main__
\* random.seed(13579); sim = simulus.simulator('mg1'); q = mg1(sim, ...)
main_demo_new ==
  /\ pcMain = "start"
  /\ NewModel(GlobalSim, FALSE)
  /\ pcMain' = "demo_new"
  /\ UNCHANGED <<bIdx, zlen, rows, rootSeed>>

\* sim.run(10): the offset is added to the clock
main_demo_run ==
  /\ pcMain = "demo_new"
  /\ until' = now[qsim] + DemoUntil
  /\ pcMain' = "demo_run"
  /\ UNCHANGED <<bIdx, zlen, rows, rootSeed, mg1Vars, now, evt, pc, running, readyq,
                 nspawned, resVars, histVars>>

\* the log level goes to WARNING; x = np.linspace(...); the header is printed
main_header ==
  /\ pcMain = "demo_ret"
  /\ pcMain' = "loop_b"
  /\ bIdx' = 0
  /\ UNCHANGED <<zlen, rows, rootSeed, mg1Vars, engVars, resVars, histVars>>

\* for b in x: z = []
main_next_b ==
  /\ pcMain = "loop_b"
  /\ IF bIdx < NumB
     THEN /\ zlen' = 0
          /\ pcMain' = "loop_t"
     ELSE /\ pcMain' = "done"
          /\ UNCHANGED zlen
  /\ UNCHANGED <<bIdx, rows, rootSeed, mg1Vars, engVars, resVars, histVars>>

\* An inner loop that is one trial short.
TrialsLeftButOne == zlen < NumTrials - 1

\* for _ in range(25): the loop goes on
TrialsLeft == zlen < NumTrials

\* simrun, lines 39-41: a simulator, a collector and an mg1 of its own
simrun_new ==
  /\ pcMain = "loop_t"
  /\ TrialsLeft
  /\ NewModel(LocalSim, TRUE)
  /\ pcMain' = "trial_new"
  /\ UNCHANGED <<bIdx, zlen, rows, rootSeed>>

\* sim.run(1000)
simrun_run ==
  /\ pcMain = "trial_new"
  /\ until' = now[qsim] + TrialUntil
  /\ pcMain' = "trial_run"
  /\ UNCHANGED <<bIdx, zlen, rows, rootSeed, mg1Vars, now, evt, pc, running, readyq,
                 nspawned, resVars, histVars>>

\* return dc.system_times.mean(); z.append(...)
simrun_return ==
  /\ pcMain = "trial_ret"
  /\ zlen' = zlen + 1
  /\ pcMain' = "loop_t"
  /\ UNCHANGED <<bIdx, rows, rootSeed, mg1Vars, engVars, resVars, histVars>>

\* after the last trial of b: the row of b is printed
main_print_row ==
  /\ pcMain = "loop_t"
  /\ ~TrialsLeft
  /\ rows' = rows + 1
  /\ bIdx' = bIdx + 1
  /\ pcMain' = "loop_b"
  /\ UNCHANGED <<zlen, rootSeed, mg1Vars, engVars, resVars, histVars>>

Next ==
  \/ \E p \in Procs : process_one_event(p)
  \/ run_ready
  \/ run_return
  \/ gen_sleep
  \/ gen_spawn
  \/ \E c \in Custs : customer_log_arrival(c)
  \/ \E c \in Custs : customer_acquire(c)
  \/ \E c \in Custs : customer_sleep(c)
  \/ \E c \in Custs : customer_log_departure(c)
  \/ \E c \in Custs : customer_release(c)
  \/ main_demo_new
  \/ main_demo_run
  \/ main_header
  \/ main_next_b
  \/ simrun_new
  \/ simrun_run
  \/ simrun_return
  \/ main_print_row

Spec == Init /\ [][Next]_vars

TypeOK ==
  /\ running \in Procs \cup {None}
  /\ semVal <= Capacity
  /\ nspawned \in 0..MaxCust

\* The program is one sequential thread: whenever a step is possible, one is
\* taken.
FairSpec == Spec /\ WF_vars(Next)

\* ------------------------------------------------------------------ claims
\* Customers that called acquire() and have not yet called release().
Present == {c \in Custs : pc[c] \in {"blocked", "l33", "sleeping", "l34", "l36"}}

\* Customers acquire() has returned to and that have not yet called release().
InService == {c \in Custs : pc[c] \in {"l33", "sleeping", "l34", "l36"}}

\* Customers the server has been handed to by a release() and whose
\* acquire() has not returned yet.
HandedOver == {readyq[i] : i \in DOMAIN readyq}

IsPrefix(a, b) == Len(a) <= Len(b) /\ SubSeq(b, 1, Len(a)) = a

\* C1: at most one customer is in service (granted the server and not yet
\* released) in every reachable state, whatever the interleaving of arrivals
\* and departures.
C1_AtMostOneInService ==
  /\ Cardinality(InService \cup HandedOver) <= 1
  /\ services = InService

\* C1 witness: two customers arrived at the same simulated time, one is in
\* its service sleep and the other waits.
C1_Witness ==
  \E c \in Custs, d \in Custs :
    /\ pc[c] = "sleeping"
    /\ pc[d] = "blocked"
    /\ arrTime[c] = arrTime[d]

\* C2: num_in_system is never negative and equals the number of customers
\* between their acquire() call and their release() call, waiting ones
\* included; a grant of the server leaves it alone.
C2_NumInSystem ==
  /\ num_in_system >= 0
  /\ num_in_system = Cardinality(Present)

\* C2 witness: one customer in service and one waiting are counted as two,
\* and an earlier customer has already left.
C2_Witness ==
  /\ num_in_system = 2
  /\ Cardinality(InService) = 1
  /\ blocked # <<>>
  /\ depOrder # <<>>

\* C3: the server is granted in the order of the acquire() calls: services
\* start, and customers depart, in that order; a customer is suspended in
\* acquire() only while another customer holds the server.
C3_FifoService ==
  /\ IsPrefix(svcOrder, acqOrder)
  /\ IsPrefix(depOrder, svcOrder)
  /\ \A c \in Custs :
       pc[c] = "blocked" /\ c \notin HandedOver
         => (InService \cup HandedOver) \ {c} # {}

\* C3 witness: two customers were waiting at once behind a third, and all
\* three have been served.
C3_Witness ==
  /\ Len(depOrder) = 3
  /\ arrTime[depOrder[2]] < relTime[depOrder[1]]
  /\ arrTime[depOrder[3]] < relTime[depOrder[1]]

\* C4: a release() with a customer waiting hands the server to the head
\* waiter, who is resumed at the same simulated time; so whenever the clock
\* advances with a customer in the system, exactly one customer is in
\* service.
C4_Step ==
  /\ \A c \in Custs :
       customer_release(c) /\ blocked # <<>>
         => readyq' = <<Head(blocked)>> /\ now' = now
  /\ run_ready => now' = now /\ Head(readyq) \in services'
  /\ now' # now /\ InRun /\ num_in_system >= 1
       => /\ Cardinality(services) = 1
          /\ \A c \in services : pc[c] = "sleeping"

C4_NoIdleServer == [][C4_Step]_vars

\* C4 witness: a waiter that was handed the server by a release() has started
\* its service at the very time of that release.
C4_Witness ==
  \E c \in Custs, d \in Custs :
    /\ pc[c] = "done"
    /\ pc[d] = "l33"
    /\ arrTime[d] < relTime[c]
    /\ now[qsim] = relTime[c]

\* C5: with a collector attached, system_times holds exactly one sample per
\* departure, in order of departure, and the sample of a customer is its
\* release time minus the time it called acquire().
C5_SystemTimes ==
  dc => /\ Len(system_times) = Len(depOrder)
        /\ Len(depOrder) = Cardinality({c \in Custs : pc[c] = "done"})
        /\ \A k \in DOMAIN system_times :
             system_times[k] = relTime[depOrder[k]] - arrTime[depOrder[k]]

\* C5 witness: a customer that waited before its service has been sampled,
\* while another customer is still in the system.
C5_Witness ==
  /\ dc
  /\ \E k \in DOMAIN system_times : system_times[k] > SvcGrid[Len(SvcGrid)]
  /\ Present # {}

Returned == pcMain \in {"demo_ret", "trial_ret"}

\* C6 as stated: every spawned customer completes, so none is left unfinished
\* when the run has returned.
C6_AlwaysCompletes ==
  Returned => \A c \in Custs : pc[c] \in {"unborn", "done"}

\* A customer in its service sleep whose wake-up is at or after the stop time.
CutOff(c) == pc[c] = "sleeping" /\ evt[c] # None /\ evt[c] >= until

C6_AtReturn ==
  Returned =>
    \A c \in Custs :
      \/ pc[c] \in {"unborn", "done"}
      \/ CutOff(c)
      \/ pc[c] = "blocked" /\ \E h \in Custs \ {c} : CutOff(h)

\* C6 amended: every spawned customer acquires the server, sleeps and calls
\* release() unless the run reaches its stop time first; when run() returns,
\* a customer that has not released is in its service sleep with a wake-up
\* at or after the stop time, or waits behind such a customer.
C6_CompletesOrCutOff ==
  /\ []C6_AtReturn
  /\ \A c \in Custs : (pc[c] = "spawned") ~> (pc[c] = "done" \/ Returned)

\* C6 witness: the demonstration run has returned with one customer served
\* and another still in its service sleep.
C6_Witness ==
  /\ pcMain = "demo_ret"
  /\ \E c \in Custs : pc[c] = "done"
  /\ \E c \in Custs : CutOff(c) /\ evt[c] > until

C7_Inv ==
  pcMain # "start" =>
    /\ pc[Gen] \in {"spawned", "l26", "sleeping", "l27"}
    /\ inter_arrival_time.k =
         nspawned + (IF pc[Gen] \in {"sleeping", "l27"} THEN 1 ELSE 0)
    /\ nspawned = Cardinality({c \in Custs : pc[c] # "unborn"})

C7_Step ==
  gen_spawn =>
    /\ nspawned' = nspawned + 1
    /\ pc'[nspawned'] = "spawned"
    /\ \A c \in Custs \ {nspawned'} : pc'[c] = pc[c]
    /\ pc'[Gen] = "l26"
    /\ running' = Gen

\* C7: the generator never ends; each iteration sleeps for one draw of the
\* inter-arrival stream and then spawns exactly one customer, and it goes on
\* to its next sleep as the running process, whatever the customers do.
C7_GeneratorLoop == []C7_Inv /\ [][C7_Step]_vars

\* C7 witness: the generator is in its third sleep while the first customer
\* is in service and the second one waits.
C7_Witness ==
  /\ pc[Gen] = "sleeping"
  /\ evt[Gen] > now[qsim]
  /\ nspawned = 2
  /\ InService # {}
  /\ blocked # <<>>

C8_Inv ==
  /\ pcMain \in {"demo_run", "demo_ret"} => until = DemoUntil
  /\ pcMain \in {"trial_run", "trial_ret"} => until = TrialUntil
  /\ InRun \/ Returned =>
       /\ now[qsim] <= until
       /\ \A c \in Custs : arrTime[c] <= until /\ relTime[c] <= until
       /\ \A i \in DOMAIN msgs : msgs[i].clock <= until

C8_Step ==
  /\ InRun => now'[qsim] >= now[qsim]
  /\ \A s \in SimIds : now'[s] < now[s] => pcMain' = "trial_new" /\ s = LocalSim

\* C8: a run returns although the generator never ends; no arrival or
\* departure happens at a time greater than the stop time (10 in the
\* demonstration run, 1000 in a trial); the clock never decreases in a run.
C8_RunStops ==
  /\ []C8_Inv
  /\ [][C8_Step]_vars
  /\ (pcMain = "demo_run") ~> (pcMain = "demo_ret")
  /\ (pcMain = "trial_run") ~> (pcMain = "trial_ret")

\* C8 witness: the demonstration run has returned at time 10 and left the
\* generator's and a customer's events unprocessed.
C8_Witness ==
  /\ pcMain = "demo_ret"
  /\ now[GlobalSim] = DemoUntil
  /\ evt[Gen] # None
  /\ \E c \in Custs : evt[c] # None /\ evt[c] > until

\* C9: in the sequence of log messages the timestamps never decrease, an
\* arrival message raises the occupancy by one, a departure message lowers
\* it by one, and each message starts from the count the previous one
\* ended with.
C9_LogSequence ==
  /\ \A i \in DOMAIN msgs :
       /\ msgs[i].site = "arrival" => msgs[i].after = msgs[i].before + 1
       /\ msgs[i].site = "departure" => msgs[i].after = msgs[i].before - 1
       /\ msgs[i].before >= 0 /\ msgs[i].after >= 0
  /\ \A i \in 1..(Len(msgs) - 1) :
       /\ msgs[i].t <= msgs[i + 1].t
       /\ msgs[i].after = msgs[i + 1].before

\* C9 witness: an emitted log with arrivals and departures at different
\* times, the occupancy going up to two.
C9_Witness ==
  /\ Len(msgs) >= 4
  /\ \A i \in DOMAIN msgs : msgs[i].emitted
  /\ \E i \in DOMAIN msgs : msgs[i].site = "departure" /\ msgs[i].before = 2
  /\ msgs[1].t < msgs[Len(msgs)].t

\* C10: every arrival and departure message carries the current time of the
\* simulator its customer runs in, for every mg1 instance, those of simrun
\* included.
C10_LogCarriesOwnClock ==
  \A i \in DOMAIN msgs : msgs[i].t = FmtG(msgs[i].clock)

InTrial == pcMain \in {"trial_new", "trial_run", "trial_ret"}

\* C11: a trial works on a simulator, collector, resource and streams of its
\* own: its steps leave the demonstration simulator alone and read no state
\* of it, so every value a trial's customer uses comes from the trial's own
\* simulator.
C11_TrialIsolated ==
  InTrial =>
    /\ qsim = LocalSim
    /\ dc
    /\ now[GlobalSim] = DemoUntil
    /\ \A i \in DOMAIN msgs : msgs[i].src = qsim

InSweep == pcMain \in {"loop_b", "loop_t", "trial_new", "trial_run", "trial_ret", "done"}

\* Trials started so far, by the position of the driver.
TrialsStarted ==
  NumTrials * bIdx
    + (IF pcMain \in {"loop_b", "done"} THEN 0 ELSE zlen)
    + (IF InTrial THEN 1 ELSE 0)

\* C13: the demonstration run (to time 10) is complete before the first
\* trial; then, for the 10 values of b one after the other, exactly 25 trials
\* are run in sequence, each on a fresh simulator run to time 1000 and each
\* adding one mean, and exactly one row is printed for a value after its 25th
\* trial and before the first trial of the next value.
C13_DriverOrder ==
  /\ ~InSweep => nsims <= 1 /\ rows = 0 /\ bIdx = 0 /\ zlen = 0
  /\ InSweep =>
       /\ now[GlobalSim] = DemoUntil
       /\ bIdx \in 0..NumB
       /\ zlen \in 0..NumTrials
       /\ rows = bIdx
       /\ nsims = 1 + TrialsStarted
  /\ pcMain = "trial_new" =>
       /\ now[LocalSim] = 0
       /\ evt = [p \in Procs |-> IF p = Gen THEN 0 ELSE None]
       /\ system_times = <<>>
       /\ num_in_system = 0
  /\ pcMain = "trial_ret" => now[LocalSim] = TrialUntil
  /\ pcMain = "done" => rows = NumB /\ nsims = 1 + NumB * NumTrials

\* C13 witness: the row of the second value of b has just been printed,
\* after 50 trials, and the third value has not started.
C13_Witness ==
  /\ pcMain = "loop_b"
  /\ rows = 2
  /\ nsims = 1 + 2 * NumTrials
  /\ now[LocalSim] = TrialUntil

HasMsg(c, site) == \E i \in DOMAIN msgs : msgs[i].who = c /\ msgs[i].site = site

\* Positions of a customer in the order of its code.
AfterArrivalLog == {"l32", "blocked", "l33", "sleeping", "l34", "l36", "done"}
AfterAcquireCall == {"blocked", "l33", "sleeping", "l34", "l36", "done"}
AfterGrant == {"l33", "sleeping", "l34", "l36", "done"}
AfterDraw == {"sleeping", "l34", "l36", "done"}
AfterDepartureLog == {"l36", "done"}

\* C14: a customer goes through arrival log, acquire, service sleep,
\* departure log and release in that order; it draws its service duration
\* and starts its sleep only once the server is granted to it, it releases at
\* the grant time plus the duration drawn, and it holds the server all the
\* while.
C14_CustomerOrder ==
  \A c \in Custs :
    /\ HasMsg(c, "arrival") <=> pc[c] \in AfterArrivalLog
    /\ arrTime[c] # None <=> pc[c] \in AfterAcquireCall
    /\ grantTime[c] # None <=> pc[c] \in AfterGrant
    /\ svcDur[c] # None <=> pc[c] \in AfterDraw
    /\ HasMsg(c, "departure") <=> pc[c] \in AfterDepartureLog
    /\ relTime[c] # None <=> pc[c] = "done"
    /\ pc[c] \in AfterGrant => arrTime[c] <= grantTime[c]
    /\ pc[c] = "sleeping" => evt[c] = grantTime[c] + svcDur[c]
    /\ pc[c] \in {"l34", "l36"} => now[qsim] = grantTime[c] + svcDur[c]
    /\ pc[c] = "done" => relTime[c] = grantTime[c] + svcDur[c]
    /\ pc[c] \in AfterGrant \ {"done"} => services = {c}

\* C14 witness: a customer that had to wait for the server has released it
\* after a service of positive length.
C14_Witness ==
  \E c \in Custs :
    /\ pc[c] = "done"
    /\ arrTime[c] < grantTime[c]
    /\ svcDur[c] > 0
    /\ relTime[c] = grantTime[c] + svcDur[c]

LastMsg == msgs[Len(msgs)]

C15_Inv ==
  \A c \in Custs :
    /\ pc[c] \in {"l32", "l36"} =>
         /\ running = c
         /\ msgs # <<>>
         /\ LastMsg.who = c
         /\ LastMsg.site = (IF pc[c] = "l32" THEN "arrival" ELSE "departure")
         /\ LastMsg.before = num_in_system

C15_Step ==
  /\ \A c \in Custs :
       customer_acquire(c) \/ customer_release(c) =>
         /\ LastMsg.who = c
         /\ LastMsg.before = num_in_system
         /\ LastMsg.after = num_in_system'
         /\ msgs' = msgs
  /\ running # None /\ running' # running =>
       /\ running' = None
       /\ pc'[running] \in {"sleeping", "blocked", "done"}

\* C15: between a customer's log call and the acquire() or release() that
\* follows it no other process runs, a process being switched out only when
\* it sleeps, blocks in acquire() or ends; so the counts in the message are
\* num_in_system right before and right after that acquire() or release().
C15_LogThenCallAtomic == []C15_Inv /\ [][C15_Step]_vars

\* C15 witness: a third customer has logged its arrival and is about to call
\* acquire() while one customer is in service and one waits.
C15_Witness ==
  \E c \in Custs :
    /\ pc[c] = "l32"
    /\ num_in_system = 2
    /\ blocked # <<>>
    /\ LastMsg.who = c
    /\ LastMsg.after = 3

\* The j-th value of the two streams of the live instance, from their seeds.
IatDraw(j) == Variate(IatGrid, [seed |-> inter_arrival_time.seed, k |-> j - 1])
SvcDraw(j) == Variate(SvcGrid, [seed |-> service_time.seed, k |-> j - 1])

RECURSIVE IatSum(_)
IatSum(k) == IF k = 0 THEN 0 ELSE IatSum(k - 1) + IatDraw(k)

\* C16: the k-th draw of the inter-arrival stream is the gap before the k-th
\* customer's arrival, and the k-th draw of the service stream is the
\* service duration of the k-th customer to arrive; every draw taken is used
\* once.
C16_StreamsInLockStep ==
  /\ \A c \in Custs : arrTime[c] # None => arrTime[c] = IatSum(c)
  /\ \A k \in DOMAIN acqOrder : arrTime[acqOrder[k]] = IatSum(k)
  /\ \A k \in DOMAIN svcOrder :
       /\ svcOrder[k] = acqOrder[k]
       /\ svcDur[svcOrder[k]] # None => svcDur[svcOrder[k]] = SvcDraw(k)
  /\ service_time.k = Cardinality({c \in Custs : svcDur[c] # None})
  /\ \A k \in DOMAIN svcOrder :
       k <= service_time.k <=> svcDur[svcOrder[k]] # None
  /\ inter_arrival_time.k =
       nspawned + (IF pc[Gen] \in {"sleeping", "l27"} THEN 1 ELSE 0)

\* C16 witness: three customers have drawn their service durations, the
\* draws of each stream are not all alike, and the customers did not call
\* acquire() in the order they were spawned in.
C16_Witness ==
  /\ service_time.k = 3
  /\ SvcDraw(1) # SvcDraw(2)
  /\ IatDraw(2) # IatDraw(3)
  /\ acqOrder # <<1, 2, 3>>

====
